---- MODULE Spec2Model ----
(***************************************************************************)
(* Model of the Lobe model converter (converter/load.py,                   *)
(* converter/compatibility.py, converter/openvino.py) and of the Azure     *)
(* Percept uploader (uploader/azure_percept.py).                           *)
(*                                                                         *)
(* SpecWalk   : tensor_dependency applied to arbitrary finite graphs.      *)
(* SpecStrip  : strip_incompatible_ops_dtypes, load_savedmodel included.   *)
(* SpecUpload : the uploader's main pipeline against a shared module twin. *)
(***************************************************************************)
EXTENDS Integers, Sequences, FiniteSets, TLC

\* ---------------------------------------------------------------- bounds
NumTensors == 3        \* tensors of the loaded graph, named 1..NumTensors
NumLabels == 2         \* len(signature["classes"]["Label"])
MaxEtag == 3           \* etag up to which other writers update the module twin

Tensors == 1..NumTensors
\* a Lobe signature names two outputs (the confidences and the prediction)
NumOutputs == IF NumTensors > 2 THEN 2 ELSE 1
RecursionLimit == NumTensors + 2

\* Python's None, for the values that are records when set
None == [none |-> TRUE]
\* no graph: nothing exported, no session yet
NoGraph == <<>>

\* ------------------------------------------------------- small utilities
Range(s) == {s[k] : k \in DOMAIN s}

Min(S) == CHOOSE x \in S : \A y \in S : x <= y

RECURSIVE SortedSeq(_)
SortedSeq(S) == IF S = {} THEN <<>> ELSE <<Min(S)>> \o SortedSeq(S \ {Min(S)})

\* str.lower() on the names that occur in the model
Lower(s) ==
    CASE s = "String" -> "string"
      [] s = "STRING" -> "string"
      [] s = "Softmax" -> "softmax"
      [] s = "SoftMax" -> "softmax"
      [] s = "Relu" -> "relu"
      [] s = "StringJoin" -> "stringjoin"
      [] s = "Reshape" -> "reshape"
      [] s = "Const" -> "const"
      [] OTHER -> s

\* [x.lower() for x in xs], with the None default replaced by list()
LowerList(xs) == IF xs = None THEN <<>> ELSE [k \in DOMAIN xs.list |-> Lower(xs.list[k])]

\* a tensor name "op:0" and name.split(':')[0]
TensorName(t) == <<t, 0>>
TensorOf(name) == name[1]
NodeName(name) == name[1]

\* Python dicts as sequences of <<key, value>> in insertion order
DictKeys(d) == {d[k][1] : k \in DOMAIN d}
DictHas(d, key) == key \in DictKeys(d)
DictGet(d, key) == d[CHOOSE k \in DOMAIN d : d[k][1] = key][2]
DictSet(d, key, val) ==
    IF DictHas(d, key)
    THEN [k \in DOMAIN d |-> IF d[k][1] = key THEN <<key, val>> ELSE d[k]]
    ELSE Append(d, <<key, val>>)
DictValues(d) == [k \in DOMAIN d |-> d[k][2]]

\* ------------------------------------------------------ tensor_dependency
RECURSIVE Visit(_, _, _, _, _)
RECURSIVE LoopInputs(_, _, _, _, _, _, _)

\* the for loop over tensor.op.inputs, from input k on
LoopInputs(g, ins, k, ops, dtypes, depth, visited) ==
    IF k > Len(ins)
    THEN [ret |-> "False", visited |-> visited]
    ELSE LET r == Visit(g, ins[k], ops, dtypes, depth + 1)
         IN  IF r.ret = "False"
             THEN LoopInputs(g, ins, k + 1, ops, dtypes, depth, visited \o r.visited)
             ELSE [ret |-> r.ret, visited |-> visited \o r.visited]

VisitNoLower(g, t, ops, dtypes, depth) ==
    IF depth > RecursionLimit
    THEN [ret |-> "RecursionError", visited |-> <<>>]
    ELSE IF g[t].dtype \in Range(dtypes) \/ g[t].op \in Range(ops)
         THEN [ret |-> "True", visited |-> <<t>>]
         ELSE LoopInputs(g, g[t].inputs, 1, ops, dtypes, depth, <<t>>)

\* one call of tensor_dependency at recursion depth `depth`: what it returns
\* (or the RecursionError the interpreter raises) and the tensors it looked up
Visit(g, t, ops, dtypes, depth) ==
    IF depth > RecursionLimit
    THEN [ret |-> "RecursionError", visited |-> <<>>]
    ELSE IF Lower(g[t].dtype) \in Range(dtypes) \/ Lower(g[t].op) \in Range(ops)
         THEN [ret |-> "True", visited |-> <<t>>]
         ELSE LoopInputs(g, g[t].inputs, 1, ops, dtypes, depth, <<t>>)

tensor_dependency(g, name, ops, dtypes) == Visit(g, TensorOf(name), ops, dtypes, 1)

\* ------------------------------------------------------------ the inputs
\* dtype name, producing op type
Kinds == { [dtype |-> "float32", op |-> "Relu"],
           [dtype |-> "float32", op |-> "Softmax"],
           [dtype |-> "string", op |-> "StringJoin"] }

\* the ops / dtypes arguments of a call (convert_openvino passes the first)
ListChoices == { [ops |-> None, dtypes |-> [list |-> <<"string">>]],
                 [ops |-> [list |-> <<"SoftMax">>], dtypes |-> None] }

OutShapes == { <<-1>>, <<-1, NumLabels>> }

\* the tensors an op numbered t may produce: any kind, inputs any subset of
\* `sources` (in ascending order), any of `shapes`
NodeChoices(sources, shapes) ==
    { [dtype |-> kind.dtype, op |-> kind.op, inputs |-> SortedSeq(S), shape |-> shape] :
        kind \in Kinds, S \in SUBSET sources, shape \in shapes }

\* any finite graph of n tensors: an op may consume any other op's output
\* (loops included)
RECURSIVE AnyGraphs(_)
AnyGraphs(n) ==
    IF n = 0 THEN {<<>>}
    ELSE { Append(g, node) : g \in AnyGraphs(n - 1),
                             node \in NodeChoices(Tensors \ {n}, {<<-1>>}) }

\* a loaded Lobe export of n tensors: ops are numbered in construction order,
\* so an op only consumes outputs of earlier ops; the signature's outputs are
\* the last NumOutputs ops
RECURSIVE DagGraphs(_)
DagGraphs(n) ==
    IF n = 0 THEN {<<>>}
    ELSE { Append(g, node) :
             g \in DagGraphs(n - 1),
             node \in NodeChoices(1..(n - 1),
                                  IF n <= NumTensors - NumOutputs THEN {<<-1>>} ELSE OutShapes) }

TagChoices == { <<"serve">>, <<"serve", "gpu">> }

\* signature.json as Lobe exports it for graph g
SignatureOf(g, tags) ==
    [ outputs |-> [j \in 1..NumOutputs |->
                     [key |-> j,
                      name |-> TensorName(NumTensors - j + 1),
                      dtype |-> g[NumTensors - j + 1].dtype,
                      shape |-> g[NumTensors - j + 1].shape]],
      classes |-> [Label |-> [k \in 1..NumLabels |-> k]],
      tags |-> tags ]

ModelDir == <<"model">>
ExportPath == "frozen.pb"

VARIABLES
    \* the caller's arguments and the exported model on disk
    arg, savedGraph, sigFile, dirExists,
    \* load_savedmodel
    session, signature, loadTags,
    \* strip_incompatible_ops_dtypes
    pc, ops, dtypes, out_tensor_names, pruned_out_tensor_names, pruned_out_shapes,
    new_outs, idx, savedmodel_dir, disk, tempCreated, frozen, outSigFile,
    \* a direct call of tensor_dependency
    walk,
    \* the uploader
    upc, modelPath, configFile, zipFile, blobs, downloadUrl,
    twin, twinRead, patchSent, reads, updates, scriptWrites

stripVars == <<arg, savedGraph, sigFile, dirExists, session, signature, loadTags,
               pc, ops, dtypes, out_tensor_names, pruned_out_tensor_names,
               pruned_out_shapes, new_outs, idx, savedmodel_dir, disk, tempCreated,
               frozen, outSigFile>>
walkVars == <<walk>>
uploadVars == <<upc, modelPath, configFile, zipFile, blobs, downloadUrl,
                twin, twinRead, patchSent, reads, updates, scriptWrites>>
vars == <<stripVars, walkVars, uploadVars>>

\* ------------------------------------------------------- initial states
StripIdle ==
    /\ arg = None /\ savedGraph = NoGraph /\ sigFile = None /\ dirExists = "unknown"
    /\ session = NoGraph /\ signature = None /\ loadTags = <<>>
    /\ pc = "idle" /\ ops = <<>> /\ dtypes = <<>>
    /\ out_tensor_names = <<>> /\ pruned_out_tensor_names = <<>>
    /\ pruned_out_shapes = <<>> /\ new_outs = FALSE /\ idx = 0
    /\ savedmodel_dir = <<>> /\ disk = {} /\ tempCreated = 0
    /\ frozen = None /\ outSigFile = None

WalkIdle == walk = None

UploadIdle ==
    /\ upc = "idle" /\ modelPath = None /\ configFile = None /\ zipFile = None
    /\ blobs = {} /\ downloadUrl = None
    /\ twin = None /\ twinRead = None /\ patchSent = None
    /\ reads = 0 /\ updates = 0 /\ scriptWrites = 0

\* strip_incompatible_ops_dtypes(savedmodel_dir, export_path, ops, dtypes, reshape_for_percept)
\* is about to run on an export of some graph
InitStrip ==
    /\ savedGraph \in DagGraphs(NumTensors)
    /\ \E tags \in TagChoices : sigFile = SignatureOf(savedGraph, tags)
    /\ \E l \in ListChoices, r \in BOOLEAN :
          arg = [ops |-> l.ops, dtypes |-> l.dtypes, reshape_for_percept |-> r]
    /\ dirExists = "unknown"
    /\ session = NoGraph /\ signature = None /\ loadTags = <<>>
    /\ pc = "start" /\ ops = <<>> /\ dtypes = <<>>
    /\ out_tensor_names = <<>> /\ pruned_out_tensor_names = <<>>
    /\ pruned_out_shapes = <<>> /\ new_outs = FALSE /\ idx = 0
    /\ savedmodel_dir = ModelDir /\ disk = {} /\ tempCreated = 0
    /\ frozen = None /\ outSigFile = None
    /\ WalkIdle /\ UploadIdle

\* --------------------------------------- strip_incompatible_ops_dtypes
\* lines 20-25: the None defaults and the lower-casing of both lists
Normalise ==
    /\ pc = "start"
    /\ ops' = LowerList(arg.ops)
    /\ dtypes' = LowerList(arg.dtypes)
    /\ pc' = "load_exists"
    /\ UNCHANGED <<arg, savedGraph, sigFile, dirExists, session, signature, loadTags,
                   out_tensor_names, pruned_out_tensor_names, pruned_out_shapes,
                   new_outs, idx, savedmodel_dir, disk, tempCreated, frozen, outSigFile>>
    /\ UNCHANGED <<walkVars, uploadVars>>

ExistsOutcomeIgnored(exists) == "load_signature"

\* load_savedmodel: where os.path.exists(model_path) leads
ExistsOutcome(exists) == IF exists THEN "load_signature" ELSE "ValueError"

\* load_savedmodel: the existence check of the export folder
LoadCheckExists ==
    /\ pc = "load_exists"
    /\ \E exists \in BOOLEAN :
          /\ dirExists' = IF exists THEN "yes" ELSE "no"
          /\ pc' = ExistsOutcome(exists)
    /\ UNCHANGED <<arg, savedGraph, sigFile, session, signature, loadTags,
                   ops, dtypes, out_tensor_names, pruned_out_tensor_names,
                   pruned_out_shapes, new_outs, idx, savedmodel_dir, disk, tempCreated,
                   frozen, outSigFile>>
    /\ UNCHANGED <<walkVars, uploadVars>>

\* load_savedmodel: json.load of signature.json
LoadReadSignature ==
    /\ pc = "load_signature"
    /\ signature' = sigFile
    /\ pc' = "load_model"
    /\ UNCHANGED <<arg, savedGraph, sigFile, dirExists, session, loadTags,
                   ops, dtypes, out_tensor_names, pruned_out_tensor_names,
                   pruned_out_shapes, new_outs, idx, savedmodel_dir, disk, tempCreated,
                   frozen, outSigFile>>
    /\ UNCHANGED <<walkVars, uploadVars>>

\* load_savedmodel: the tags handed to tf.compat.v1.saved_model.load
LoadTagsOf(sig) == sig.tags

\* load_savedmodel: the session is created and the model loaded into it
LoadModel ==
    /\ pc = "load_model"
    /\ session' = savedGraph
    /\ loadTags' = LoadTagsOf(signature)
    /\ pc' = "filter"
    /\ UNCHANGED <<arg, savedGraph, sigFile, dirExists, signature,
                   ops, dtypes, out_tensor_names, pruned_out_tensor_names,
                   pruned_out_shapes, new_outs, idx, savedmodel_dir, disk, tempCreated,
                   frozen, outSigFile>>
    /\ UNCHANGED <<walkVars, uploadVars>>

\* lines 32-35: the outputs whose signature dtype is not listed
OutTensorNames(sig, dts) ==
    LET keep == SelectSeq(sig.outputs, LAMBDA e : Lower(e.dtype) \notin Range(dts))
    IN  [k \in DOMAIN keep |-> <<keep[k].key, keep[k].name>>]

\* lines 32-40
FilterOutputs ==
    /\ pc = "filter"
    /\ out_tensor_names' = OutTensorNames(signature, dtypes)
    /\ pc' = IF Len(out_tensor_names') = 0 THEN "returned" ELSE "loop"
    /\ idx' = 1
    /\ UNCHANGED <<arg, savedGraph, sigFile, dirExists, session, signature, loadTags,
                   ops, dtypes, pruned_out_tensor_names,
                   pruned_out_shapes, new_outs, savedmodel_dir, disk, tempCreated,
                   frozen, outSigFile>>
    /\ UNCHANGED <<walkVars, uploadVars>>

ShouldReshapeAlways(tensor, sig, reshape_for_percept) ==
    tensor.shape = <<-1, Len(sig.classes.Label)>>

\* line 54: the condition under which an output is reshaped
ShouldReshape(tensor, sig, reshape_for_percept) ==
    tensor.shape = <<-1, Len(sig.classes.Label)>> /\ reshape_for_percept

\* line 56: tf.reshape(tensor, [-1, 1, 1, classes]) adds the shape constant and
\* the Reshape op to the graph
WithReshape(g, t) ==
    LET n == Len(g)
        last == g[t].shape[Len(g[t].shape)]
    IN  g \o << [dtype |-> "int32", op |-> "Const", inputs |-> <<>>, shape |-> <<4>>],
                [dtype |-> g[t].dtype, op |-> "Reshape", inputs |-> <<t, n + 1>>,
                 shape |-> <<-1, 1, 1, last>>] >>

\* lines 47-59: one iteration of the loop over out_tensor_names
LoopStep ==
    /\ pc = "loop"
    /\ idx <= Len(out_tensor_names)
    /\ LET key == out_tensor_names[idx][1]
           tensor_name == out_tensor_names[idx][2]
           dep == tensor_dependency(session, tensor_name, ops, dtypes)
           kept == IF dep.ret = "False"
                   THEN DictSet(pruned_out_tensor_names, key, tensor_name)
                   ELSE pruned_out_tensor_names
           tensor == session[TensorOf(tensor_name)]
       IN  IF ShouldReshape(tensor, signature, arg.reshape_for_percept)
           THEN LET g2 == WithReshape(session, TensorOf(tensor_name))
                    reshaped_out == Len(g2)
                IN  /\ session' = g2
                    /\ pruned_out_tensor_names' = DictSet(kept, key, TensorName(reshaped_out))
                    /\ pruned_out_shapes' = DictSet(pruned_out_shapes, key, g2[reshaped_out].shape)
                    /\ new_outs' = TRUE
           ELSE /\ pruned_out_tensor_names' = kept
                /\ UNCHANGED <<session, pruned_out_shapes, new_outs>>
    /\ idx' = idx + 1
    /\ UNCHANGED <<arg, savedGraph, sigFile, dirExists, signature, loadTags,
                   pc, ops, dtypes, out_tensor_names, savedmodel_dir, disk, tempCreated,
                   frozen, outSigFile>>
    /\ UNCHANGED <<walkVars, uploadVars>>

\* lines 61-65: the loop is over; return when nothing is left
CheckPruned ==
    /\ pc = "loop"
    /\ idx > Len(out_tensor_names)
    /\ pc' = IF Len(pruned_out_tensor_names) = 0 THEN "returned"
             ELSE IF new_outs THEN "save_reshaped" ELSE "freeze"
    /\ UNCHANGED <<arg, savedGraph, sigFile, dirExists, session, signature, loadTags,
                   ops, dtypes, out_tensor_names, pruned_out_tensor_names,
                   pruned_out_shapes, new_outs, idx, savedmodel_dir, disk, tempCreated,
                   frozen, outSigFile>>
    /\ UNCHANGED <<walkVars, uploadVars>>

\* lines 65-89: the reshaped graph is saved as a temporary SavedModel
SaveReshaped ==
    /\ pc = "save_reshaped"
    /\ savedmodel_dir' = Append(savedmodel_dir, "reshaped_savedmodel")
    /\ disk' = disk \cup { [dir |-> savedmodel_dir',
                            graph |-> session,
                            outputs |-> {NodeName(v) : v \in Range(DictValues(pruned_out_tensor_names))},
                            tags |-> signature.tags] }
    /\ tempCreated' = tempCreated + 1
    /\ pc' = "freeze"
    /\ UNCHANGED <<arg, savedGraph, sigFile, dirExists, session, signature, loadTags,
                   ops, dtypes, out_tensor_names, pruned_out_tensor_names,
                   pruned_out_shapes, new_outs, idx, frozen, outSigFile>>
    /\ UNCHANGED <<walkVars, uploadVars>>

\* lines 91-109: freeze_graph on the pruned output nodes
Freeze ==
    /\ pc = "freeze"
    /\ frozen' = [ output_node_names |->
                     [k \in DOMAIN pruned_out_tensor_names |->
                        NodeName(pruned_out_tensor_names[k][2])],
                   keys |-> [k \in DOMAIN pruned_out_tensor_names |->
                               pruned_out_tensor_names[k][1]],
                   input_saved_model_dir |-> savedmodel_dir,
                   saved_model_tags |-> signature.tags,
                   output_graph |-> ExportPath ]
    /\ pc' = "write_signature"
    /\ UNCHANGED <<arg, savedGraph, sigFile, dirExists, session, signature, loadTags,
                   ops, dtypes, out_tensor_names, pruned_out_tensor_names,
                   pruned_out_shapes, new_outs, idx, savedmodel_dir, disk, tempCreated,
                   outSigFile>>
    /\ UNCHANGED <<walkVars, uploadVars>>

PrunedSignatureKeepNames(sig, pruned, shapes, newOuts) ==
    LET keep == SelectSeq(sig.outputs, LAMBDA e : DictHas(pruned, e.key))
    IN  [sig EXCEPT !.outputs =
            [k \in DOMAIN keep |->
                IF newOuts /\ DictHas(shapes, keep[k].key)
                THEN [keep[k] EXCEPT !.shape = DictGet(shapes, keep[k].key)]
                ELSE keep[k]]]

\* lines 112-118: the signature made to reflect the pruned outputs
PrunedSignature(sig, pruned, shapes, newOuts) ==
    LET keep == SelectSeq(sig.outputs, LAMBDA e : DictHas(pruned, e.key))
    IN  [sig EXCEPT !.outputs =
            [k \in DOMAIN keep |->
                IF newOuts /\ DictHas(shapes, keep[k].key)
                THEN [keep[k] EXCEPT !.shape = DictGet(shapes, keep[k].key),
                                     !.name = DictGet(pruned, keep[k].key)]
                ELSE keep[k]]]

\* lines 111-121: signature_frozen_graph.json is written
WriteSignature ==
    /\ pc = "write_signature"
    /\ signature' = PrunedSignature(signature, pruned_out_tensor_names,
                                    pruned_out_shapes, new_outs)
    /\ outSigFile' = signature'
    /\ pc' = IF new_outs THEN "cleanup" ELSE "done"
    /\ UNCHANGED <<arg, savedGraph, sigFile, dirExists, session, loadTags,
                   ops, dtypes, out_tensor_names, pruned_out_tensor_names,
                   pruned_out_shapes, new_outs, idx, savedmodel_dir, disk, tempCreated,
                   frozen>>
    /\ UNCHANGED <<walkVars, uploadVars>>

\* lines 124-126: shutil.rmtree of the temporary SavedModel
Cleanup ==
    /\ pc = "cleanup"
    /\ disk' = {d \in disk : d.dir # savedmodel_dir}
    /\ pc' = "done"
    /\ UNCHANGED <<arg, savedGraph, sigFile, dirExists, session, signature, loadTags,
                   ops, dtypes, out_tensor_names, pruned_out_tensor_names,
                   pruned_out_shapes, new_outs, idx, savedmodel_dir, tempCreated,
                   frozen, outSigFile>>
    /\ UNCHANGED <<walkVars, uploadVars>>

NextStrip ==
    \/ Normalise
    \/ LoadCheckExists
    \/ LoadReadSignature
    \/ LoadModel
    \/ FilterOutputs
    \/ LoopStep
    \/ CheckPruned
    \/ SaveReshaped
    \/ Freeze
    \/ WriteSignature
    \/ Cleanup

SpecStrip == InitStrip /\ [][NextStrip]_vars

\* --------------------------------------- a direct call of tensor_dependency
InitWalk ==
    /\ savedGraph \in AnyGraphs(NumTensors)
    /\ session = savedGraph
    /\ arg = None
    /\ sigFile = None /\ dirExists = "unknown" /\ signature = None /\ loadTags = <<>>
    /\ pc = "idle" /\ ops = <<>> /\ dtypes = <<>>
    /\ out_tensor_names = <<>> /\ pruned_out_tensor_names = <<>>
    /\ pruned_out_shapes = <<>> /\ new_outs = FALSE /\ idx = 0
    /\ savedmodel_dir = <<>> /\ disk = {} /\ tempCreated = 0
    /\ frozen = None /\ outSigFile = None
    /\ WalkIdle /\ UploadIdle

\* tensor_dependency(graph, name, ops, dtypes) as line 49 calls it, with the
\* lists lower-cased by lines 24-25
\* (the walk starts at the last tensor: AnyGraphs holds every wiring of the
\* other tensors around it)
WalkCall ==
    /\ pc = "idle"
    /\ session # NoGraph
    /\ walk = None
    /\ \E l \in ListChoices :
          /\ arg' = [ops |-> l.ops, dtypes |-> l.dtypes, reshape_for_percept |-> FALSE]
          /\ walk' = [start |-> NumTensors,
                      res |-> tensor_dependency(session, TensorName(NumTensors),
                                                LowerList(l.ops), LowerList(l.dtypes))]
    /\ UNCHANGED <<savedGraph, sigFile, dirExists, session, signature, loadTags,
                   pc, ops, dtypes, out_tensor_names, pruned_out_tensor_names,
                   pruned_out_shapes, new_outs, idx, savedmodel_dir, disk, tempCreated,
                   frozen, outSigFile>>
    /\ UNCHANGED uploadVars

NextWalk == WalkCall

SpecWalk == InitWalk /\ [][NextWalk]_vars

\* ------------------------------------------- what the claims speak about
ArgList(xs) == IF xs = None THEN <<>> ELSE xs.list

\* tensor u of graph g has a dtype name or a producing op type in the given
\* lists, compared without regard to case
Listed(g, u) ==
    \/ \E k \in DOMAIN ArgList(arg.dtypes) : Lower(ArgList(arg.dtypes)[k]) = Lower(g[u].dtype)
    \/ \E k \in DOMAIN ArgList(arg.ops) : Lower(ArgList(arg.ops)[k]) = Lower(g[u].op)

RECURSIVE Closure(_, _)
Closure(g, S) ==
    LET S2 == S \cup UNION { Range(g[u].inputs) : u \in S }
    IN  IF S2 = S THEN S ELSE Closure(g, S2)

Acyclic(g) == \A t \in DOMAIN g : t \notin Closure(g, Range(g[t].inputs))

DependsOn(g, t) == \E u \in Closure(g, {t}) : Listed(g, u)

\* C2: on an acyclic graph tensor_dependency returns True exactly when the
\* tensor or a tensor reachable from it through producing-op inputs has a
\* listed dtype or op type (case-insensitively), and False otherwise.
C2_WalkIsReachability ==
    (walk # None /\ Acyclic(session)) =>
        /\ walk.res.ret \in {"True", "False"}
        /\ (walk.res.ret = "True") <=> DependsOn(session, walk.start)

C2_Witness ==
    /\ walk # None /\ Acyclic(session)
    /\ walk.res.ret = "True"
    /\ ~Listed(session, walk.start)
    /\ \A u \in Range(session[walk.start].inputs) : ~Listed(session, u)
    /\ arg.ops = [list |-> <<"SoftMax">>]

\* C9: the walk terminates on every finite graph with a result, and that
\* result is returned at the first listed tensor met in depth-first input
\* order: no tensor is looked up after it.
C9_WalkTerminates ==
    walk # None =>
        /\ walk.res.ret \in {"True", "False"}
        /\ walk.res.ret = "True" =>
              /\ Listed(session, walk.res.visited[Len(walk.res.visited)])
              /\ \A k \in 1..(Len(walk.res.visited) - 1) : ~Listed(session, walk.res.visited[k])

\* the entry of signature.json for an output key
OrigEntry(key) ==
    sigFile.outputs[CHOOSE k \in DOMAIN sigFile.outputs : sigFile.outputs[k].key = key]

DtypeListed(e) == Lower(e.dtype) \in Range(LowerList(arg.dtypes))

\* tensor_dependency on the output's original tensor in the loaded graph
DependsOrig(e) ==
    tensor_dependency(savedGraph, e.name, LowerList(arg.ops), LowerList(arg.dtypes)).ret # "False"

WrittenKeys == {outSigFile.outputs[k].key : k \in DOMAIN outSigFile.outputs}

\* C1: after strip_incompatible_ops_dtypes completes, whatever
\* reshape_for_percept is, every output frozen as an output node and kept in
\* the written signature has a signature dtype that is not listed and an
\* original tensor for which tensor_dependency is false.
C1_KeptOutputsAreCompatible ==
    pc = "done" =>
        \A key \in WrittenKeys \cap Range(frozen.keys) :
            /\ ~DtypeListed(OrigEntry(key))
            /\ ~DependsOrig(OrigEntry(key))

\* no signature output is compatible: all have a listed dtype, or all that
\* remain depend on a listed op or dtype
NoCompatibleOutput ==
    /\ sigFile # None
    /\ \/ \A k \in DOMAIN sigFile.outputs : DtypeListed(sigFile.outputs[k])
       \/ \A k \in DOMAIN sigFile.outputs :
             ~DtypeListed(sigFile.outputs[k]) => DependsOrig(sigFile.outputs[k])

\* C5: when no compatible output remains, the function returns without calling
\* freeze_graph, without writing signature_frozen_graph.json and without
\* creating a temporary SavedModel directory.
C5_NothingDoneWithoutOutputs ==
    (pc # "idle" /\ NoCompatibleOutput) =>
        /\ frozen = None
        /\ outSigFile = None
        /\ tempCreated = 0
        /\ pc \notin {"done", "cleanup", "write_signature", "freeze", "save_reshaped"}

\* the loop over the outputs is over (or was never entered)
LoopOver ==
    \/ pc \in {"returned", "save_reshaped", "freeze", "write_signature", "cleanup", "done"}
    \/ pc = "loop" /\ idx > Len(out_tensor_names)

\* a Reshape op consuming the output's original tensor was added to the graph
WasReshaped(e) ==
    \E n \in DOMAIN session :
        /\ n > NumTensors
        /\ session[n].op = "Reshape"
        /\ session[n].inputs[1] = TensorOf(e.name)

ReshapeOff ==
    (pc # "idle" /\ ~arg.reshape_for_percept) =>
        /\ session # NoGraph => Len(session) = NumTensors
        /\ tempCreated = 0 /\ disk = {}
        /\ frozen # None => frozen.input_saved_model_dir = ModelDir
        /\ outSigFile # None =>
              \A k \in DOMAIN outSigFile.outputs :
                  /\ outSigFile.outputs[k].name = OrigEntry(outSigFile.outputs[k].key).name
                  /\ outSigFile.outputs[k].shape = OrigEntry(outSigFile.outputs[k].key).shape

\* C4 as stated: with reshape_for_percept false nothing is added, no temporary
\* SavedModel is made, the original directory is frozen and the surviving
\* outputs keep name and shape; with it true an output is reshaped if and
\* only if its shape is [None, number of class labels].
C4_Original ==
    /\ ReshapeOff
    /\ (pc # "idle" /\ arg.reshape_for_percept /\ LoopOver /\ signature # None) =>
          \A k \in DOMAIN sigFile.outputs :
              WasReshaped(sigFile.outputs[k])
                  <=> sigFile.outputs[k].shape = <<-1, NumLabels>>

\* C4 amended: as C4, but with reshape_for_percept true it is an output whose
\* signature dtype is not in dtypes that is reshaped if and only if its shape
\* is [None, number of class labels]; an output with a listed dtype is never reshaped.
C4_ReshapeOptional ==
    /\ ReshapeOff
    /\ (pc # "idle" /\ arg.reshape_for_percept /\ LoopOver /\ signature # None) =>
          \A k \in DOMAIN sigFile.outputs :
              WasReshaped(sigFile.outputs[k])
                  <=> (/\ ~DtypeListed(sigFile.outputs[k])
                       /\ sigFile.outputs[k].shape = <<-1, NumLabels>>)

C4_Witness ==
    /\ pc = "done" /\ arg.reshape_for_percept
    /\ \E k \in DOMAIN sigFile.outputs : WasReshaped(sigFile.outputs[k])
    /\ \E k \in DOMAIN sigFile.outputs :
          /\ DtypeListed(sigFile.outputs[k])
          /\ sigFile.outputs[k].shape = <<-1, NumLabels>>
          /\ ~WasReshaped(sigFile.outputs[k])

\* position of an output key among the output nodes given to freeze_graph
FrozenPos(key) == CHOOSE k \in DOMAIN frozen.keys : frozen.keys[k] = key

\* C6: after a completed conversion the written signature has exactly the
\* output keys whose tensors were frozen, each with the name of the frozen
\* tensor: the reshaped tensor's name and shape when the output was reshaped,
\* the original name and shape otherwise.
C6_SignatureReflectsFrozen ==
    pc = "done" =>
        /\ WrittenKeys = Range(frozen.keys)
        /\ \A k \in DOMAIN outSigFile.outputs :
              LET e == outSigFile.outputs[k]
                  o == OrigEntry(e.key)
              IN  /\ NodeName(e.name) = frozen.output_node_names[FrozenPos(e.key)]
                  /\ IF WasReshaped(o)
                     THEN /\ TensorOf(e.name) > NumTensors
                          /\ session[TensorOf(e.name)].op = "Reshape"
                          /\ session[TensorOf(e.name)].inputs[1] = TensorOf(o.name)
                          /\ e.shape = <<-1, 1, 1, NumLabels>>
                     ELSE e.name = o.name /\ e.shape = o.shape

C6_Witness ==
    /\ pc = "done"
    /\ Len(outSigFile.outputs) >= 2
    /\ \E k \in DOMAIN outSigFile.outputs : WasReshaped(OrigEntry(outSigFile.outputs[k].key))
    /\ \E k \in DOMAIN outSigFile.outputs : ~WasReshaped(OrigEntry(outSigFile.outputs[k].key))

\* C7: load_savedmodel raises ValueError when the export directory does not
\* exist, before signature.json is read and before a session is created or a
\* model loaded; when it exists, signature.json is read first and the model is
\* loaded with exactly the signature's tags.
C7_LoadOrder ==
    /\ dirExists = "no" => pc = "ValueError"
    /\ pc = "ValueError" =>
          dirExists = "no" /\ signature = None /\ session = NoGraph /\ loadTags = <<>>
    /\ signature # None => dirExists = "yes"
    /\ session # NoGraph => signature # None /\ loadTags = sigFile.tags

C7_Witness ==
    /\ pc = "filter" /\ dirExists = "yes"
    /\ session # NoGraph /\ loadTags = <<"serve", "gpu">>

\* ------------------------------------------------------------ uploader
\* a file path as os.path sees it: dirname, and the basename split by splitext
ModelPaths == { [dir |-> "", stem |-> "model", ext |-> ".xml"],
                [dir |-> "out", stem |-> "classifier", ext |-> ".xml"] }

Basename(p) == [stem |-> p.stem, ext |-> p.ext]
ContainerName == "models"

\* what the IoT Hub holds for the device's azureeyemodule: an etag and the
\* desired properties
InitTwin == [etag |-> 1, desired |-> [ModelZipUrl |-> None, Logging |-> FALSE]]

InitUpload ==
    /\ StripIdle /\ WalkIdle
    /\ upc = "config"
    /\ modelPath \in ModelPaths
    /\ configFile = None /\ zipFile = None /\ blobs = {} /\ downloadUrl = None
    /\ twin = InitTwin /\ twinRead = None /\ patchSent = None
    /\ reads = 0 /\ updates = 0 /\ scriptWrites = 0

AfterZipSkipUpload == "twin_read"

\* __main__: the step that follows zip_openvino_image_classification_model_package
AfterZip == "upload"

\* create_openvino_image_classification_model_config
WriteConfig ==
    /\ upc = "config"
    /\ configFile' = [ path |-> [dir |-> modelPath.dir, stem |-> "config", ext |-> ".json"],
                       config |-> [DomainType |-> "classification",
                                   LabelFileName |-> "labels.txt",
                                   ModelFileName |-> Basename(modelPath)] ]
    /\ upc' = "zip"
    /\ UNCHANGED <<modelPath, zipFile, blobs, downloadUrl, twin, twinRead, patchSent,
                   reads, updates, scriptWrites>>
    /\ UNCHANGED <<stripVars, walkVars>>

\* zip_openvino_image_classification_model_package; zf.write raises when the
\* label, model or weights file is missing
BuildZip ==
    /\ upc = "zip"
    /\ \E present \in BOOLEAN :
          IF present
          THEN LET config == configFile.config
                   model_no_ext == config.ModelFileName.stem
               IN  /\ zipFile' = [ path |-> [dir |-> "", stem |-> model_no_ext, ext |-> ".zip"],
                                   members |-> { [stem |-> "config", ext |-> ".json"],
                                                 [stem |-> "labels", ext |-> ".txt"],
                                                 config.ModelFileName,
                                                 [stem |-> model_no_ext, ext |-> ".bin"] } ]
                   /\ upc' = AfterZip
          ELSE /\ upc' = "error"
               /\ UNCHANGED zipFile
    /\ UNCHANGED <<modelPath, configFile, blobs, downloadUrl, twin, twinRead, patchSent,
                   reads, updates, scriptWrites>>
    /\ UNCHANGED <<stripVars, walkVars>>

\* block_blob_service.make_blob_url with a read-only SAS token valid one hour
BlobUrl(container, blob_name) ==
    [ protocol |-> "https", container |-> container, blob |-> blob_name,
      sas |-> [container |-> container, blob |-> blob_name,
               permission |-> "READ", expiry |-> "utcnow+1h"] ]

\* upload_model_zip; the storage calls raise when the service cannot be reached
UploadModelZip ==
    /\ upc = "upload"
    /\ \E ok \in BOOLEAN :
          IF ok
          THEN LET model_blob_name == Basename(zipFile.path)
               IN  /\ blobs' = {b \in blobs : ~(b.container = ContainerName /\ b.name = model_blob_name)}
                                 \cup { [container |-> ContainerName, name |-> model_blob_name,
                                         content |-> zipFile.members] }
                   /\ downloadUrl' = BlobUrl(ContainerName, model_blob_name)
                   /\ upc' = "twin_read"
          ELSE /\ upc' = "error"
               /\ UNCHANGED <<blobs, downloadUrl>>
    /\ UNCHANGED <<modelPath, configFile, zipFile, twin, twinRead, patchSent,
                   reads, updates, scriptWrites>>
    /\ UNCHANGED <<stripVars, walkVars>>

\* update_percept_module_twin: get_module_twin
ReadModuleTwin ==
    /\ upc = "twin_read"
    /\ twinRead' = twin
    /\ reads' = reads + 1
    /\ upc' = "twin_update"
    /\ UNCHANGED <<modelPath, configFile, zipFile, blobs, downloadUrl, twin, patchSent,
                   updates, scriptWrites>>
    /\ UNCHANGED <<stripVars, walkVars>>

IfMatchAny(read) == 0

\* update_percept_module_twin: the etag passed to update_module_twin
IfMatchOf(read) == read.etag

\* the hub's precondition on an update: If-Match "*" (0 here) or the current etag
HubAccepts(ifMatch, current) == ifMatch = 0 \/ ifMatch = current

\* update_percept_module_twin: update_module_twin with the patch and the etag
\* read before; a rejected update raises and nothing catches it
UpdateModuleTwin ==
    /\ upc = "twin_update"
    /\ patchSent' = [ desired |-> [ModelZipUrl |-> downloadUrl],
                      ifMatch |-> IfMatchOf(twinRead) ]
    /\ updates' = updates + 1
    /\ IF HubAccepts(patchSent'.ifMatch, twin.etag)
       THEN /\ twin' = [ etag |-> twin.etag + 1,
                         desired |-> [twin.desired EXCEPT
                                        !.ModelZipUrl = patchSent'.desired.ModelZipUrl] ]
            /\ scriptWrites' = scriptWrites + 1
            /\ upc' = "done"
       ELSE /\ upc' = "error"
            /\ UNCHANGED <<twin, scriptWrites>>
    /\ UNCHANGED <<modelPath, configFile, zipFile, blobs, downloadUrl, twinRead, reads>>
    /\ UNCHANGED <<stripVars, walkVars>>

OtherUrl == BlobUrl("other", [stem |-> "other", ext |-> ".zip"])

\* another writer (the portal, another deployment) updates the same module twin
OtherWriter ==
    /\ upc # "idle"
    /\ twin.etag < MaxEtag
    /\ \E d \in { [twin.desired EXCEPT !.Logging = ~twin.desired.Logging],
                  [twin.desired EXCEPT !.ModelZipUrl = OtherUrl] } :
          twin' = [etag |-> twin.etag + 1, desired |-> d]
    /\ UNCHANGED <<upc, modelPath, configFile, zipFile, blobs, downloadUrl, twinRead,
                   patchSent, reads, updates, scriptWrites>>
    /\ UNCHANGED <<stripVars, walkVars>>

NextUpload ==
    \/ WriteConfig
    \/ BuildZip
    \/ UploadModelZip
    \/ ReadModuleTwin
    \/ UpdateModuleTwin
    \/ OtherWriter

SpecUpload == InitUpload /\ [][NextUpload]_vars

\* C3: the pipeline runs write config, build zip, upload blob, update module
\* twin in that order; the twin is updated only after the upload has returned,
\* and ModelZipUrl is set to exactly the URL upload_model_zip returned for the
\* blob just uploaded.
C3_PipelineOrder ==
    /\ zipFile # None => configFile # None
    /\ downloadUrl # None =>
          /\ zipFile # None
          /\ downloadUrl = BlobUrl(ContainerName, Basename(zipFile.path))
          /\ \E b \in blobs : /\ b.container = downloadUrl.container
                              /\ b.name = downloadUrl.blob
                              /\ b.content = zipFile.members
    /\ (reads > 0 \/ updates > 0) => downloadUrl # None
    /\ updates > 0 => patchSent.desired.ModelZipUrl = downloadUrl
    /\ upc = "done" => scriptWrites = 1
    /\ (scriptWrites = 1 /\ twin.etag = twinRead.etag + 1) =>
          twin.desired.ModelZipUrl = downloadUrl

C3_Witness ==
    /\ upc = "done"
    /\ twin.desired.ModelZipUrl = downloadUrl
    /\ downloadUrl.blob = [stem |-> "classifier", ext |-> ".zip"]

====
